---- MODULE Spec2Model ----
(***************************************************************************)
(* A model of langdetect/detector_factory.py: the DetectorFactory profile  *)
(* store (langlist, word_lang_prob_map), its loaders, get_best_timehash    *)
(* and the process-wide _factory used by detect / detect_langs.            *)
(*                                                                         *)
(* Python lists are 0-based, TLA+ sequences 1-based: slot `index` of a     *)
(* Python vector is position index + 1 of the sequence modelling it.       *)
(* A float probability count / total is modelled by the reduced fraction   *)
(* <<numerator, denominator>>; 0.0 is <<0, 1>>.                            *)
(***************************************************************************)
EXTENDS Naturals, Integers, Sequences, FiniteSets, TLC

VARIABLES
    langlist,            \* DetectorFactory.langlist of the store under study
    word_lang_prob_map,  \* DetectorFactory.word_lang_prob_map of that store
    last,                \* the last call on the store: operation, arguments,
                         \* outcome, the store as it was before the call and
                         \* whether the call before it was clear() ("clear" on
                         \* an empty langlist, "cleared" on a non-empty one)
    ncalls,              \* the number of loader / add_profile calls so far
    only_loads,          \* TRUE while every call so far was a load that
                         \* returned normally, a clear or a create
    options,             \* get_best_timehash: the directory names offered
    now,                 \* get_best_timehash: datetime.now()
    best,                \* get_best_timehash: the outcome of the last call
    _factory,            \* the module-level _factory (0 is None)
    heap,                \* the DetectorFactory objects allocated so far
    pc,                  \* per thread: position inside detect / init_factory
    frame,               \* per thread: the locals of the running call
    seen,                \* per thread: outcome of the last finished detect
    ndetects             \* per thread: detect / detect_langs calls started

vars == <<langlist, word_lang_prob_map, last, ncalls, only_loads, options, now, best,
          _factory, heap, pc, frame, seen, ndetects>>

storeVars == <<langlist, word_lang_prob_map, last, ncalls, only_loads>>
timeVars == <<options, now, best>>
globalVars == <<_factory, heap, pc, frame, seen, ndetects>>

(***************************************************************************)
(* Bounds of the model.                                                    *)
(***************************************************************************)
MaxLoad == 2       \* most records (or directory entries) in one load call
MaxIndex == 1      \* largest index / langsize passed to add_profile directly
MaxOptions == 3    \* most timestamp directories offered to get_best_timehash
MaxThreads == 2    \* threads calling detect / detect_langs
MaxDetects == 2    \* most detect / detect_langs calls one thread makes
MaxCalls == 2      \* most loader / add_profile calls made on the store under study

(***************************************************************************)
(* Probabilities.                                                          *)
(***************************************************************************)
RECURSIVE GCD(_, _)
GCD(a, b) == IF b = 0 THEN a ELSE GCD(b, a % b)

\* 1.0 * count / total for total > 0
Prob(count, total) ==
    LET g == GCD(count, total) IN <<count \div g, total \div g>>

\* the float 0.0
Zero == <<0, 1>>

\* [0.0] * langsize (the empty list when langsize <= 0)
Zeros(langsize) == [i \in 1..langsize |-> Zero]

(***************************************************************************)
(* Profile records.  A record is what one element of json_profiles (or one *)
(* profile file) parses to; ok = FALSE stands for text that json.loads or  *)
(* the LangProfile constructor rejects.  freq is the parsed JSON object in *)
(* its iteration order, a sequence of <<word, count>> with distinct words. *)
(***************************************************************************)
Profile(name, freq, n_words) ==
    [ok |-> TRUE, name |-> name, freq |-> freq, n_words |-> n_words]

Malformed == [ok |-> FALSE, name |-> "", freq |-> <<>>, n_words |-> <<0, 0, 0>>]

P_en == Profile("en", << <<"a", 1>>, <<"ab", 1>>, <<"", 1>> >>, <<2, 1, 0>>)
P_fr == Profile("fr", << <<"a", 1>>, <<"b", 2>>, <<"abcd", 1>> >>, <<3, 0, 0>>)
\* a record whose total for length 2 is zero although it has a 2-gram
P_zz == Profile("zz", << <<"b", 1>>, <<"ab", 1>> >>, <<1, 0, 0>>)

Records == {P_en, P_fr, P_zz, Malformed}

SeqsUpTo(S, n) == UNION {[1..k -> S] : k \in 0..n}

\* the inputs of load_json_profile
JsonInputs == SeqsUpTo(Records, MaxLoad)

(***************************************************************************)
(* DetectorFactory.add_profile.  The result is the store after the call,   *)
(* the exception that ended it ("ok" when it returned) and, where a bare   *)
(* except re-raised, the exception that was caught (cause).                *)
(***************************************************************************)
Outcome(ll, map, err, cause) ==
    [langlist |-> ll, map |-> map, err |-> err, cause |-> cause]

InList(x, s) == \E i \in 1..Len(s) : s[i] = x

\* AddWords without the test of line 113: every word of the record gets a
\* fresh vector, also a word that has one
RECURSIVE AddWordsFreshVector(_, _, _, _, _)
AddWordsFreshVector(map, profile, index, langsize, k) ==
    IF k > Len(profile.freq) THEN [map |-> map, err |-> "ok"]
    ELSE
        LET word == profile.freq[k][1]
            count == profile.freq[k][2]
            m1 == [w \in DOMAIN map \cup {word} |->
                       IF w = word THEN Zeros(langsize) ELSE map[w]]
            length == Len(word)
        IN  IF 1 <= length /\ length <= 3
            THEN IF profile.n_words[length] = 0
                 THEN [map |-> m1, err |-> "ZeroDivisionError"]
                 ELSE IF index + 1 > Len(m1[word])
                 THEN [map |-> m1, err |-> "IndexError"]
                 ELSE AddWordsFreshVector(
                          [m1 EXCEPT ![word][index + 1] =
                               Prob(count, profile.n_words[length])],
                          profile, index, langsize, k + 1)
            ELSE AddWordsFreshVector(m1, profile, index, langsize, k + 1)

\* lines 112-118: the loop over profile.freq, from its k-th entry on
RECURSIVE AddWords(_, _, _, _, _)
AddWords(map, profile, index, langsize, k) ==
    IF k > Len(profile.freq) THEN [map |-> map, err |-> "ok"]
    ELSE
        LET word == profile.freq[k][1]
            count == profile.freq[k][2]
            m1 == IF word \in DOMAIN map THEN map
                  ELSE map @@ (word :> Zeros(langsize))
            length == Len(word)
        IN  IF 1 <= length /\ length <= 3
            THEN IF profile.n_words[length] = 0
                 THEN [map |-> m1, err |-> "ZeroDivisionError"]
                 ELSE IF index + 1 > Len(m1[word])
                 THEN [map |-> m1, err |-> "IndexError"]
                 ELSE AddWords([m1 EXCEPT ![word][index + 1] =
                                    Prob(count, profile.n_words[length])],
                               profile, index, langsize, k + 1)
            ELSE AddWords(m1, profile, index, langsize, k + 1)

\* add_profile without the duplicate test of lines 108-109
add_profile_unchecked(ll, map, profile, index, langsize) ==
    LET r == AddWords(map, profile, index, langsize, 1)
    IN  Outcome(Append(ll, profile.name), r.map, r.err, r.err)

\* lines 106-118
add_profile(ll, map, profile, index, langsize) ==
    IF InList(profile.name, ll)
    THEN Outcome(ll, map, "DuplicateLangError", "DuplicateLangError")
    ELSE LET r == AddWords(map, profile, index, langsize, 1)
         IN  Outcome(Append(ll, profile.name), r.map, r.err, r.err)

(***************************************************************************)
(* DetectorFactory.load_json_profile.                                      *)
(***************************************************************************)
\* lines 97-104: the loop, from the k-th element of json_profiles on
RECURSIVE LoadJsonLoop(_, _, _, _, _)
LoadJsonLoop(ll, map, json_profiles, index, k) ==
    IF k > Len(json_profiles) THEN Outcome(ll, map, "ok", "ok")
    ELSE
        LET json_profile == json_profiles[k] IN
        IF ~json_profile.ok THEN Outcome(ll, map, "FormatError", "ParseError")
        ELSE
            LET r == add_profile(ll, map, json_profile, index, Len(json_profiles))
            IN  IF r.err # "ok"
                THEN Outcome(r.langlist, r.map, "FormatError", r.err)
                ELSE LoadJsonLoop(r.langlist, r.map, json_profiles,
                                  index + 1, k + 1)

\* lines 92-104
load_json_profile(ll, map, json_profiles) ==
    IF Len(json_profiles) < 2
    THEN Outcome(ll, map, "NeedLoadProfileError", "NeedLoadProfileError")
    ELSE LoadJsonLoop(ll, map, json_profiles, 0, 1)

(***************************************************************************)
(* DetectorFactory.load_profile.  list_files is the listing that lines     *)
(* 56-62 arrive at (in either mode); an entry of it is a name starting     *)
(* with '.', something that is not a regular file, a file open() cannot    *)
(* read, or a file holding a record.                                       *)
(***************************************************************************)
Hidden == [kind |-> "hidden", rec |-> Malformed]
NotFile == [kind |-> "notfile", rec |-> Malformed]
Unreadable == [kind |-> "unreadable", rec |-> Malformed]
File(rec) == [kind |-> "file", rec |-> rec]

Entries ==
    {Hidden, NotFile, Unreadable} \cup {File(r) : r \in {P_en, P_fr, Malformed}}

\* the listings load_profile is given
Listings == SeqsUpTo(Entries, MaxLoad)

\* lines 68-90: one round of the loop, on the entry filename; the result
\* carries the index the next round starts with
LoadEntry(ll, map, filename, index, langsize) ==
    LET Result(o, next) ==
            [langlist |-> o.langlist, map |-> o.map, err |-> o.err,
             cause |-> o.cause, index |-> next]
    IN  IF filename.kind = "hidden"
        THEN Result(Outcome(ll, map, "ok", "ok"), index)
        ELSE IF filename.kind = "notfile"
        THEN Result(Outcome(ll, map, "ok", "ok"), index)
        ELSE IF filename.kind = "unreadable"
        THEN Result(Outcome(ll, map, "FileLoadError", "IOError"), index)
        ELSE IF ~filename.rec.ok
        THEN Result(Outcome(ll, map, "FormatError", "ParseError"), index)
        ELSE
            LET r == add_profile(ll, map, filename.rec, index, langsize)
            IN  IF r.err # "ok"
                THEN Result(Outcome(r.langlist, r.map, "FormatError", r.err),
                            index)
                ELSE Result(r, index + 1)

\* lines 67-90: the loop, from the k-th entry of list_files on
RECURSIVE LoadFilesLoop(_, _, _, _, _)
LoadFilesLoop(ll, map, list_files, index, k) ==
    IF k > Len(list_files) THEN Outcome(ll, map, "ok", "ok")
    ELSE
        LET r == LoadEntry(ll, map, list_files[k], index, Len(list_files))
        IN  IF r.err # "ok"
            THEN Outcome(r.langlist, r.map, r.err, r.cause)
            ELSE LoadFilesLoop(r.langlist, r.map, list_files, r.index, k + 1)

\* lines 63-90
load_profile(ll, map, list_files) ==
    IF Len(list_files) = 0
    THEN Outcome(ll, map, "NeedLoadProfileError", "NeedLoadProfileError")
    ELSE LoadFilesLoop(ll, map, list_files, 0, 1)

(***************************************************************************)
(* DetectorFactory.create / _create_detector: the exception raised, or     *)
(* "ok" when a Detector is returned, and the store after the call.         *)
(***************************************************************************)
\* Detector(factory), of langdetect/detector.py: the detector keeps the
\* factory's table and language list to read them, and writes neither
Detector(ll, map) == Outcome(ll, map, "ok", "ok")

\* _create_detector without the test of lines 132-133
_create_detector_unchecked(ll, map) == Detector(ll, map)

\* lines 131-134
_create_detector(ll, map) ==
    IF Len(ll) = 0
    THEN Outcome(ll, map, "NeedLoadProfileError", "NeedLoadProfileError")
    ELSE Detector(ll, map)

\* lines 124-129 (set_alpha acts on the detector alone)
create(ll, map) == _create_detector(ll, map)

(***************************************************************************)
(* The store under study: one DetectorFactory and the calls made on it.    *)
(* The loaders and add_profile count towards MaxCalls; clear and create    *)
(* may follow any of them.                                                 *)
(***************************************************************************)
Call(op, input, index, langsize, r) ==
    [op |-> op, input |-> input, index |-> index, langsize |-> langsize,
     err |-> r.err, cause |-> r.cause,
     prev |-> IF last.op # "clear" THEN ""
              ELSE IF last.pre_langlist = <<>> THEN "clear" ELSE "cleared",
     pre_langlist |-> langlist, pre_map |-> word_lang_prob_map]

\* the parts of the state the store's calls never touch
IdleTime ==
    options = {} /\ now = <<>> /\ best = [err |-> "none", dir |-> <<>>]
IdleGlobal ==
    /\ _factory = 0 /\ heap = <<>>
    /\ pc = <<>> /\ frame = <<>> /\ seen = <<>> /\ ndetects = <<>>

\* lines 33-35
StoreInit ==
    /\ langlist = <<>>
    /\ word_lang_prob_map = <<>>
    /\ last = [op |-> "__init__", input |-> <<>>, index |-> 0, langsize |-> 0,
               err |-> "ok", cause |-> "ok", prev |-> "",
               pre_langlist |-> <<>>, pre_map |-> <<>>]
    /\ ncalls = 0
    /\ only_loads = TRUE

Mutate(op, input, index, langsize, r) ==
    /\ ncalls' = ncalls + 1
    /\ langlist' = r.langlist
    /\ word_lang_prob_map' = r.map
    /\ last' = Call(op, input, index, langsize, r)
    /\ only_loads' = (only_loads /\ op # "add_profile" /\ r.err = "ok")
    /\ UNCHANGED <<timeVars, globalVars>>

LoadJsonProfile(json_profiles) ==
    /\ ncalls < MaxCalls
    /\ Mutate("load_json_profile", json_profiles, 0, Len(json_profiles),
              load_json_profile(langlist, word_lang_prob_map, json_profiles))

LoadProfile(list_files) ==
    /\ ncalls < MaxCalls
    /\ Mutate("load_profile", list_files, 0, Len(list_files),
              load_profile(langlist, word_lang_prob_map, list_files))

AddProfile(profile, index, langsize) ==
    /\ ncalls < MaxCalls
    /\ Mutate("add_profile", <<profile>>, index, langsize,
              add_profile(langlist, word_lang_prob_map, profile, index,
                          langsize))

\* clear without line 122: the table is kept
ClearKeepsTable ==
    /\ langlist' = <<>>
    /\ word_lang_prob_map' = word_lang_prob_map
    /\ last' = Call("clear", <<>>, 0, 0, [err |-> "ok", cause |-> "ok"])
    /\ UNCHANGED <<ncalls, only_loads, timeVars, globalVars>>

\* lines 120-122
Clear ==
    /\ langlist' = <<>>
    /\ word_lang_prob_map' = <<>>
    /\ last' = Call("clear", <<>>, 0, 0, [err |-> "ok", cause |-> "ok"])
    /\ UNCHANGED <<ncalls, only_loads, timeVars, globalVars>>

\* lines 124-134
Create ==
    /\ LET r == create(langlist, word_lang_prob_map)
       IN  /\ langlist' = r.langlist
           /\ word_lang_prob_map' = r.map
           /\ last' = Call("create", <<>>, 0, 0, r)
    /\ UNCHANGED <<ncalls, only_loads, timeVars, globalVars>>

Init == StoreInit /\ IdleTime /\ IdleGlobal

Next ==
    \/ \E json_profiles \in JsonInputs : LoadJsonProfile(json_profiles)
    \/ \E list_files \in Listings : LoadProfile(list_files)
    \/ \E profile \in Records \ {Malformed}, index \in 0..MaxIndex,
          langsize \in 0..MaxIndex + 1 : AddProfile(profile, index, langsize)
    \/ Clear
    \/ Create

Spec == Init /\ [][Next]_vars

(***************************************************************************)
(* Properties of the store.                                                *)
(***************************************************************************)
IsLoad == last.op \in {"load_json_profile", "load_profile"}

\* the record the i-th element of the last load's input holds (Malformed
\* for a directory entry that is no readable profile file)
RecAt(i) ==
    IF last.op = "load_json_profile" THEN last.input[i]
    ELSE IF last.input[i].kind = "file" THEN last.input[i].rec
    ELSE Malformed

HasDuplicateName ==
    \E i, j \in 1..Len(last.input) :
        i < j /\ RecAt(i).ok /\ RecAt(j).ok /\ RecAt(i).name = RecAt(j).name

\* the number of elements of the last load's input that are profiles to load
Offered ==
    IF last.op = "load_json_profile" THEN Len(last.input)
    ELSE Cardinality({i \in 1..Len(last.input) :
                        last.input[i].kind \in {"file", "unreadable"}})

StoreUnchanged ==
    langlist = last.pre_langlist /\ word_lang_prob_map = last.pre_map

\* C1: a load call whose input holds two records with the same language
\* name fails with DuplicateLangError and no other error code.
C1_DuplicateNamesRaiseDuplicateLangError ==
    (IsLoad /\ HasDuplicateName) => last.err = "DuplicateLangError"

\* C2: a load call that would load fewer than 2 profiles fails with
\* NeedLoadProfileError, and no load call returns normally leaving fewer
\* than 2 languages in the store.
C2_FewerThanTwoRaisesNeedLoadProfile ==
    IsLoad =>
        /\ Offered < 2 => last.err = "NeedLoadProfileError"
        /\ last.err = "ok" => Len(langlist) >= 2

\* C3: when a load call fails on a malformed record, the store is as it was
\* before the call: nothing of the records before the malformed one is kept.
C3_MalformedRecordAbortsWholeLoad ==
    (IsLoad /\ last.err = "FormatError" /\ last.cause = "ParseError")
        => StoreUnchanged

\* C4: after a load call that returns normally on an empty store, every
\* vector of word_lang_prob_map is as long as langlist.
C4_VectorLengthIsLanguageCount ==
    (IsLoad /\ last.err = "ok" /\ last.pre_langlist = <<>>
        /\ last.pre_map = <<>>)
        => \A w \in DOMAIN word_lang_prob_map :
               Len(word_lang_prob_map[w]) = Len(langlist)

\* the profile record of a language (names are unique among Records)
ProfileOf(lang) == CHOOSE r \in Records : r.ok /\ r.name = lang

\* the n-grams of length 1..3 of a record, as positions of its freq
NGrams(p) == {k \in 1..Len(p.freq) : Len(p.freq[k][1]) \in 1..3}

\* slot i (1-based) of every vector holds what language langlist[i] says
Positional(i) ==
    LET p == ProfileOf(langlist[i]) IN
    /\ \A k \in NGrams(p) :
           LET w == p.freq[k][1] IN
           /\ w \in DOMAIN word_lang_prob_map
           /\ i <= Len(word_lang_prob_map[w])
           /\ word_lang_prob_map[w][i] =
                  Prob(p.freq[k][2], p.n_words[Len(w)])
    /\ \A w \in DOMAIN word_lang_prob_map :
           (\A k \in NGrams(p) : p.freq[k][1] # w)
               => /\ i <= Len(word_lang_prob_map[w])
                  /\ word_lang_prob_map[w][i] = Zero

\* C5: after any sequence of successful load calls and clear calls, slot i
\* of every vector holds count / total of language langlist[i] for its
\* n-grams and 0.0 for the others, also after a second load without a clear.
C5_VectorsPositionalByLanguageIndex ==
    only_loads => \A i \in 1..Len(langlist) : Positional(i)

\* C6: create() fails with NeedLoadProfileError exactly when langlist is
\* empty, returns a detector otherwise, and leaves the store unchanged.
C6_CreateFailsIffNoLanguage ==
    last.op = "create" =>
        /\ last.err \in {"ok", "NeedLoadProfileError"}
        /\ last.err = "NeedLoadProfileError" <=> Len(last.pre_langlist) = 0
        /\ StoreUnchanged

\* create() returning a detector for a store that holds two languages
C6_Witness ==
    last.op = "create" /\ last.err = "ok" /\ Len(langlist) >= 2

NoDuplicates(s) == \A i, j \in 1..Len(s) : s[i] = s[j] => i = j

IsPrefix(s, t) == Len(s) <= Len(t) /\ \A i \in 1..Len(s) : s[i] = t[i]

\* C9: langlist never holds a language twice, and every call either empties
\* it (clear) or only appends to it, so its order is the order of acceptance.
C9_LanglistDistinctInAcceptanceOrder ==
    /\ NoDuplicates(langlist)
    /\ IF last.op = "clear" THEN langlist = <<>>
       ELSE IsPrefix(last.pre_langlist, langlist)

\* a call refused for a duplicate language, on a store holding two languages
C9_Witness ==
    last.cause = "DuplicateLangError" /\ Len(langlist) >= 2

Keys(p) == {p.freq[k][1] : k \in 1..Len(p.freq)}

\* C10: a successful add_profile(record, index, langsize) changes only slot
\* index of the vectors of the record's n-grams; a vector it creates holds
\* 0.0 in every other slot.
C10_AddProfileWritesOnlySlotIndex ==
    (last.op = "add_profile" /\ last.err = "ok") =>
        LET p == last.input[1]
            slot == last.index + 1
            pre == last.pre_map
        IN  /\ \A w \in DOMAIN pre :
                   /\ w \in DOMAIN word_lang_prob_map
                   /\ Len(word_lang_prob_map[w]) = Len(pre[w])
                   /\ \A j \in 1..Len(pre[w]) :
                          (j # slot \/ w \notin Keys(p))
                              => word_lang_prob_map[w][j] = pre[w][j]
            /\ \A w \in DOMAIN word_lang_prob_map \ DOMAIN pre :
                   /\ w \in Keys(p)
                   /\ \A j \in 1..Len(word_lang_prob_map[w]) :
                          j # slot => word_lang_prob_map[w][j] = Zero

\* a successful add_profile that wrote into a vector that existed, next to
\* another language's non-zero slot, and created a vector as well
C10_Witness ==
    /\ last.op = "add_profile" /\ last.err = "ok"
    /\ \E w \in DOMAIN last.pre_map :
           /\ w \in Keys(last.input[1])
           /\ \E j \in 1..Len(last.pre_map[w]) :
                  j # last.index + 1 /\ last.pre_map[w][j] # Zero
    /\ DOMAIN word_lang_prob_map # DOMAIN last.pre_map

\* C11: every key of word_lang_prob_map is an n-gram of length 1, 2 or 3:
\* a key of a record's freq of length 0 or above 3 adds no entry.
C11_KeysAreNGramsOfLengthOneToThree ==
    \A w \in DOMAIN word_lang_prob_map : Len(w) \in 1..3

\* what the last load call does to a newly constructed store
LoadIntoNewStore ==
    IF last.op = "load_json_profile"
    THEN load_json_profile(<<>>, <<>>, last.input)
    ELSE load_profile(<<>>, <<>>, last.input)

\* C12: after clear() langlist and word_lang_prob_map are empty, and a load
\* that follows it leaves the store (and ends) as on a new store.
C12_ClearResetsToNewStore ==
    /\ last.op = "clear" => langlist = <<>> /\ word_lang_prob_map = <<>>
    /\ (IsLoad /\ last.prev \in {"clear", "cleared"}) =>
           /\ langlist = LoadIntoNewStore.langlist
           /\ word_lang_prob_map = LoadIntoNewStore.map
           /\ last.err = LoadIntoNewStore.err

\* two languages loaded right after a clear() of a non-empty store
C12_Witness ==
    /\ IsLoad /\ last.prev = "cleared" /\ last.err = "ok"
    /\ Len(langlist) >= 2

\* C13: an add_profile call that raises for a duplicate language or for a
\* zero length total leaves langlist and word_lang_prob_map as they were.
C13_FailedAddProfileLeavesStoreUnchanged ==
    (last.op = "add_profile"
        /\ last.err \in {"DuplicateLangError", "ZeroDivisionError"})
        => StoreUnchanged

(***************************************************************************)
(* DetectorFactory.get_best_timehash.  A directory name and the current    *)
(* time are strings of 12 decimal digits, mmddYYYYHHMM, modelled as        *)
(* sequences of digits.  int(x) is modelled by the numeral of x: its       *)
(* digits without leading zeros, ordered as numbers are (a shorter numeral *)
(* is smaller, numerals of one length compare digit by digit); str() of    *)
(* an int is that numeral.                                                 *)
(***************************************************************************)
TwoDigits(n) == <<n \div 10, n % 10>>
FourDigits(n) ==
    <<n \div 1000, (n \div 100) % 10, (n \div 10) % 10, n % 10>>

\* strftime("%m%d%Y%H%M") of a point in time
Stamp(month, day, year, hour, minute) ==
    TwoDigits(month) \o TwoDigits(day) \o FourDigits(year)
        \o TwoDigits(hour) \o TwoDigits(minute)

Stamps ==
    {Stamp(m, d, y, 0, 0) : m \in {1, 2, 12}, d \in {1, 15}, y \in {2023, 2024}}

RECURSIVE int(_)
int(x) == IF Len(x) > 1 /\ Head(x) = 0 THEN int(Tail(x)) ELSE x

RECURSIVE LexLeq(_, _)
LexLeq(a, b) ==
    IF Len(a) = 0 \/ Len(b) = 0 THEN Len(a) = 0
    ELSE IF Head(a) # Head(b) THEN Head(a) < Head(b)
    ELSE LexLeq(Tail(a), Tail(b))

\* a <= b for two ints
IntLeq(a, b) == Len(a) < Len(b) \/ (Len(a) = Len(b) /\ LexLeq(a, b))

\* line 45: sorted(ints, reverse=True)
RECURSIVE SortedReverse(_)
SortedReverse(ints) ==
    IF ints = {} THEN <<>>
    ELSE LET top == CHOOSE t \in ints : \A u \in ints : IntLeq(u, t)
         IN  <<top>> \o SortedReverse(ints \ {top})

\* lines 47-53: the loop, from the k-th element of the sorted list on
RECURSIVE FirstFit(_, _, _)
FirstFit(int_sorted_timehash, current_datetime, k) ==
    IF k > Len(int_sorted_timehash) THEN [err |-> "NameError", dir |-> <<>>]
    ELSE LET timestamps == int_sorted_timehash[k] IN
         IF IntLeq(timestamps, int(current_datetime))
         THEN IF Len(timestamps) < 12
              THEN [err |-> "ok", dir |-> <<0>> \o timestamps]
              ELSE [err |-> "ok", dir |-> timestamps]
         ELSE FirstFit(int_sorted_timehash, current_datetime, k + 1)

\* lines 43-53
get_best_timehash(opts, current_datetime) ==
    FirstFit(SortedReverse({int(x) : x \in opts}), current_datetime, 1)

StoreIdle ==
    /\ langlist = <<>>
    /\ word_lang_prob_map = <<>>
    /\ last = [op |-> "__init__", input |-> <<>>, index |-> 0, langsize |-> 0,
               err |-> "ok", cause |-> "ok", prev |-> "",
               pre_langlist |-> <<>>, pre_map |-> <<>>]
    /\ ncalls = 0
    /\ only_loads = TRUE

\* the directory names offered and the time of the call
TimeInit ==
    /\ StoreIdle /\ IdleGlobal
    /\ options \in {o \in SUBSET Stamps : Cardinality(o) <= MaxOptions}
    /\ now \in Stamps
    /\ best = [err |-> "none", dir |-> <<>>]

\* the call of get_best_timehash on that listing, at that time
GetBestTimehash ==
    /\ best.err = "none"
    /\ best' = get_best_timehash(options, now)
    /\ UNCHANGED <<options, now, storeVars, globalVars>>

TimeNext == GetBestTimehash

SpecTime == TimeInit /\ [][TimeNext]_vars

\* the point in time a name stands for, as digits in the order year, month,
\* day, hour, minute
Chrono(x) == SubSeq(x, 5, 8) \o SubSeq(x, 1, 4) \o SubSeq(x, 9, 12)

\* x is not later than y
NotLater(x, y) == LexLeq(Chrono(x), Chrono(y))

\* C8: get_best_timehash returns the directory whose timestamp is the
\* latest point in time not later than the current time, and fails only
\* when every directory's timestamp is later than the current time.
C8_BestTimehashIsLatestNotLater ==
    best.err # "none" =>
        LET fit == {x \in options : NotLater(x, now)} IN
        /\ best.err = "NameError" <=> fit = {}
        /\ fit # {} => /\ best.dir \in fit
                       /\ \A x \in fit : NotLater(x, best.dir)

(***************************************************************************)
(* The process-wide store: _factory, init_factory, detect, detect_langs.   *)
(* Threads call detect / detect_langs concurrently; a thread can be        *)
(* preempted between any two statements of init_factory and between two    *)
(* files of load_profile.  heap holds the DetectorFactory objects made so  *)
(* far, _factory is an index into it (0 for None).                         *)
(*                                                                         *)
(* The package directory holds "profiles" (two profile files) and          *)
(* "timed_profiles" (two timestamp-named subdirectories of profile files); *)
(* the sequential specification further down also calls with               *)
(* "other_profiles" (the same two files listed in the other order) and     *)
(* "broken_profiles" (a profile file followed by a malformed one).         *)
(***************************************************************************)
Threads == 1..MaxThreads

Directories == {"profiles", "timed_profiles"}

\* line 152: profiles_directory.find('timed_') == 0
StartsWithTimed(profiles_directory) == profiles_directory = "timed_profiles"

\* datetime.now() during the calls
CurrentTime == Stamp(1, 15, 2024, 0, 0)

\* the subdirectories of "timed_profiles": one of the past, one of the future
TimedSubdirs == {Stamp(1, 1, 2024, 0, 0), Stamp(2, 1, 2024, 0, 0)}

\* os.listdir of a timestamp subdirectory
SubdirFiles(name) ==
    IF name = Stamp(1, 1, 2024, 0, 0) THEN <<File(P_fr), File(P_en)>>
    ELSE <<File(P_en)>>

\* os.listdir(profile_directory) as load_profile's loop sees it in classic
\* mode: the entries of "timed_profiles" are directories, not files
ClassicFiles(profile_directory) ==
    IF profile_directory = "profiles" THEN <<File(P_en), File(P_fr)>>
    ELSE IF profile_directory = "other_profiles"
    THEN <<File(P_fr), File(P_en)>>
    ELSE IF profile_directory = "broken_profiles"
    THEN <<File(P_en), File(Malformed)>>
    ELSE [i \in 1..Cardinality(TimedSubdirs) |-> NotFile]

\* lines 56-62: the listing load_profile works on, or the exception of
\* get_best_timehash
ListFiles(profile_directory, mode) ==
    IF mode = "classic"
    THEN [err |-> "ok", list_files |-> ClassicFiles(profile_directory)]
    ELSE LET b == get_best_timehash(TimedSubdirs, CurrentTime)
         IN  IF b.err # "ok" THEN [err |-> b.err, list_files |-> <<>>]
             ELSE [err |-> "ok", list_files |-> SubdirFiles(b.dir)]

NoFrame ==
    [fn |-> "", dir |-> "", mode |-> "", self |-> 0, list_files |-> <<>>,
     index |-> 0, k |-> 0]

NotCalled ==
    [fn |-> "", dir |-> "", err |-> "none", langlist |-> <<>>,
     stage |-> "", reloading |-> FALSE]

GlobalInit ==
    /\ StoreIdle /\ IdleTime
    /\ _factory = 0
    /\ heap = <<>>
    /\ pc = [t \in Threads |-> "idle"]
    /\ frame = [t \in Threads |-> NoFrame]
    /\ seen = [t \in Threads |-> NotCalled]
    /\ ndetects = [t \in Threads |-> 0]

\* thread t is between line 153 and the return of the load of line 154
Reloading(t) ==
    frame[t].mode = "expiration" /\ pc[t] \in {"load_profile", "loop"}

\* the call ends: with the exception err, or with a detector made from the
\* store whose langlist is ll; stage is the statement it ended in
Return(t, err, ll) ==
    /\ seen' = [seen EXCEPT ![t] =
                   [fn |-> frame[t].fn, dir |-> frame[t].dir, err |-> err,
                    langlist |-> ll, stage |-> pc[t],
                    reloading |-> \E u \in Threads \ {t} : Reloading(u)]]
    /\ frame' = [frame EXCEPT ![t] = NoFrame]
    /\ pc' = [pc EXCEPT ![t] = "idle"]

Enter(t, fn, profiles_directory) ==
    /\ pc[t] = "idle"
    /\ ndetects[t] < MaxDetects
    /\ ndetects' = [ndetects EXCEPT ![t] = @ + 1]
    /\ frame' = [frame EXCEPT ![t] =
                    [NoFrame EXCEPT !.fn = fn, !.dir = profiles_directory]]
    /\ pc' = [pc EXCEPT ![t] = "init_factory"]
    /\ UNCHANGED <<_factory, heap, seen, storeVars, timeVars>>

\* lines 157-158: detect enters init_factory
Detect(t, profiles_directory) ==
    /\ Enter(t, "detect", profiles_directory)

\* lines 164-165: detect_langs enters init_factory
DetectLangs(t, profiles_directory) ==
    /\ Enter(t, "detect_langs", profiles_directory)

\* lines 149 and 152: the tests of init_factory
InitFactoryTest(t) ==
    /\ pc[t] = "init_factory"
    /\ IF _factory = 0
       THEN /\ frame' = [frame EXCEPT ![t].mode = "classic"]
            /\ pc' = [pc EXCEPT ![t] = "new"]
       ELSE IF StartsWithTimed(frame[t].dir)
       THEN /\ frame' = [frame EXCEPT ![t].mode = "expiration"]
            /\ pc' = [pc EXCEPT ![t] = "new"]
       ELSE /\ frame' = frame
            /\ pc' = [pc EXCEPT ![t] = "create"]
    /\ UNCHANGED <<_factory, heap, seen, ndetects, storeVars, timeVars>>

\* lines 150 and 153: _factory = DetectorFactory()
InitFactoryNew(t) ==
    /\ pc[t] = "new"
    /\ heap' = Append(heap, [langlist |-> <<>>, map |-> <<>>])
    /\ _factory' = Len(heap) + 1
    /\ pc' = [pc EXCEPT ![t] = "load_profile"]
    /\ UNCHANGED <<frame, seen, ndetects, storeVars, timeVars>>

\* lines 151 and 154, then 56-66: _factory is read, load_profile lists the
\* directory
LoadProfileEnter(t) ==
    /\ pc[t] = "load_profile"
    /\ LET l == ListFiles(frame[t].dir, frame[t].mode) IN
       IF l.err # "ok"
       THEN Return(t, l.err, <<>>)
       ELSE IF Len(l.list_files) = 0
       THEN Return(t, "NeedLoadProfileError", <<>>)
       ELSE /\ frame' = [frame EXCEPT ![t].self = _factory,
                                      ![t].list_files = l.list_files,
                                      ![t].index = 0, ![t].k = 1]
            /\ pc' = [pc EXCEPT ![t] = "loop"]
            /\ seen' = seen
    /\ UNCHANGED <<_factory, heap, ndetects, storeVars, timeVars>>

\* lines 67-90: one round of load_profile's loop, or its end
LoadProfileStep(t) ==
    /\ pc[t] = "loop"
    /\ LET f == frame[t]
           self == heap[f.self]
       IN  IF f.k > Len(f.list_files)
           THEN /\ pc' = [pc EXCEPT ![t] = "create"]
                /\ UNCHANGED <<frame, heap, seen>>
           ELSE
               LET r == LoadEntry(self.langlist, self.map, f.list_files[f.k],
                                  f.index, Len(f.list_files))
               IN  /\ heap' = [heap EXCEPT ![f.self] =
                                  [langlist |-> r.langlist, map |-> r.map]]
                   /\ IF r.err # "ok"
                      THEN Return(t, r.err, <<>>)
                      ELSE /\ frame' = [frame EXCEPT ![t].k = f.k + 1,
                                                     ![t].index = r.index]
                           /\ UNCHANGED <<pc, seen>>
    /\ UNCHANGED <<_factory, ndetects, storeVars, timeVars>>

\* lines 159 and 166: _factory.create(); the rest of the call works on the
\* detector
FactoryCreate(t) ==
    /\ pc[t] = "create"
    /\ LET self == heap[_factory]
           r == create(self.langlist, self.map)
       IN  /\ heap' = [heap EXCEPT ![_factory] =
                          [langlist |-> r.langlist, map |-> r.map]]
           /\ Return(t, r.err, r.langlist)
    /\ UNCHANGED <<_factory, ndetects, storeVars, timeVars>>

GlobalNext ==
    \E t \in Threads :
        \/ \E d \in Directories : Detect(t, d)
        \/ \E d \in Directories : DetectLangs(t, d)
        \/ InitFactoryTest(t)
        \/ InitFactoryNew(t)
        \/ LoadProfileEnter(t)
        \/ LoadProfileStep(t)
        \/ FactoryCreate(t)

SpecGlobal == GlobalInit /\ [][GlobalNext]_vars

\* the langlist a complete load of a directory leaves in a new store
FullList(profile_directory, mode) ==
    load_profile(<<>>, <<>>, ListFiles(profile_directory, mode).list_files).langlist

FullLists ==
    {FullList("profiles", "classic"), FullList("timed_profiles", "expiration")}

\* C7: while a thread reloads the process-wide store from a 'timed_'
\* directory, a create() of another thread never fails with
\* NeedLoadProfileError and never sees less than a full profile set.
C7_ReloadNeverExposesPartialStore ==
    \A t \in Threads :
        (seen[t].err # "none" /\ seen[t].reloading)
            => seen[t].err = "ok" /\ seen[t].langlist \in FullLists

(***************************************************************************)
(* One thread calling detect / detect_langs one call after the other, with *)
(* ordinary directories, a directory holding a malformed file and the      *)
(* 'timed_' directory.                                                     *)
(***************************************************************************)
SeqDirectories ==
    {"profiles", "other_profiles", "broken_profiles", "timed_profiles"}

SeqNext ==
    LET t == 1 IN
        \/ \E d \in SeqDirectories : Detect(t, d)
        \/ \E d \in SeqDirectories : DetectLangs(t, d)
        \/ InitFactoryTest(t)
        \/ InitFactoryNew(t)
        \/ LoadProfileEnter(t)
        \/ LoadProfileStep(t)
        \/ FactoryCreate(t)

SpecSeq == GlobalInit /\ [][SeqNext]_vars

\* what a load of the directory leaves in a new store
FullStore(profile_directory) ==
    load_profile(<<>>, <<>>, ListFiles(profile_directory, "classic").list_files)

\* C14: when init_factory(d) has returned for an ordinary directory d whose
\* files all load, the process-wide store holds the profiles loaded from d,
\* whatever directory earlier calls were made with (here: no call, or a call
\* that ended with a detector).
C14_StoreHoldsProfilesOfDirectoryPassed ==
    \A t \in Threads :
        (pc[t] = "create" /\ ~StartsWithTimed(frame[t].dir)
                /\ FullStore(frame[t].dir).err = "ok"
                /\ seen[t].err \in {"none", "ok"})
            => /\ heap[_factory].langlist = FullStore(frame[t].dir).langlist
               /\ heap[_factory].map = FullStore(frame[t].dir).map

\* C15: every load init_factory starts for a directory whose name starts with
\* 'timed_' is in expiration mode, the first call of the process included.
C15_TimedDirectoryLoadsInExpirationMode ==
    \A t \in Threads :
        (pc[t] \in {"new", "load_profile", "loop"}
                /\ StartsWithTimed(frame[t].dir))
            => frame[t].mode = "expiration"

\* C16: after a call that failed inside load_profile, a call with an ordinary
\* directory does not go on to create() without loading: it never uses the
\* store the failed call left behind.
C16_FailedLoadIsNotLeftInstalled ==
    \A t \in Threads :
        (seen[t].stage \in {"load_profile", "loop"}
                /\ seen[t].err \notin {"none", "ok"}
                /\ ~StartsWithTimed(frame[t].dir))
            => ~(pc[t] = "create" /\ frame[t].mode = "")

====
